---- MODULE Spec2Model ----
(***************************************************************************)
(* Model of the Electrical Rule Check engine (ercEngine.ts): runERC, its   *)
(* nine rules, the two name helpers and generateTestInstructions, and of   *)
(* the page that runs it (page.tsx): the selection of checks and the       *)
(* filter handleRunERC applies to the findings before showing them.        *)
(*                                                                         *)
(* A diagram is a parsed JSON value.  Every JSON value is a record with a  *)
(* tag t: undefined, a string (a sequence of one-character strings), a     *)
(* number, an array or an object.  Node/edge `type` tags and property      *)
(* `key`s are only ever compared with === against literals, so they are    *)
(* kept as atoms (TLA+ strings).  Identifiers (node, edge and pin ids) are *)
(* non-empty strings.                                                      *)
(***************************************************************************)
EXTENDS Integers, Sequences, FiniteSets, TLC

VARIABLES
  diagram,        \* the parsed input handed to runERC
  pc,             \* "start" before the run, "done" after it, "cleared" after Clear
  results,        \* the findings runERC returned
  tests,          \* the test instructions runERC returned
  threw,          \* runERC threw instead of returning
  enabledChecks,  \* the ids of the checks ticked on the page
  output          \* the findings the page shows: results after the filter

vars == <<diagram, pc, results, tests, threw, enabledChecks, output>>

-----------------------------------------------------------------------------
(* JSON values *)

Undef == [t |-> "undef"]

Str(s) == [t |-> "str", s |-> s]

Num(n) == [t |-> "num", n |-> n]

Arr(a) == [t |-> "arr", a |-> a]

\* JavaScript truthiness: undefined, "" and 0 are falsy
Truthy(v) ==
  CASE v.t = "undef" -> FALSE
    [] v.t = "str" -> v.s # <<>>
    [] v.t = "num" -> v.n # 0
    [] OTHER -> TRUE

\* a || b
OrElse(a, b) == IF Truthy(a) THEN a ELSE b

\* x || [] for an optional array: the elements to iterate over
Elems(v) == IF v.t = "arr" THEN v.a ELSE <<>>

-----------------------------------------------------------------------------
(* Strings *)

LowerLetters ==
  <<"a","b","c","d","e","f","g","h","i","j","k","l","m",
    "n","o","p","q","r","s","t","u","v","w","x","y","z">>

UpperLetters ==
  <<"A","B","C","D","E","F","G","H","I","J","K","L","M",
    "N","O","P","Q","R","S","T","U","V","W","X","Y","Z">>

\* the upper-case letter of every lower-case letter
UpperOf ==
  [c \in {LowerLetters[i] : i \in 1..Len(LowerLetters)} |->
     UpperLetters[CHOOSE i \in 1..Len(LowerLetters) : LowerLetters[i] = c]]

UpperChar(c) == IF c \in DOMAIN UpperOf THEN UpperOf[c] ELSE c

\* a conversion that leaves every character as it is
toUpperCase_Identity(s) == s

\* String.prototype.toUpperCase
toUpperCase(s) == [i \in 1..Len(s) |-> UpperChar(s[i])]

IsSpace(c) == c = " "

\* String.prototype.trim
RECURSIVE trimStart(_)
trimStart(s) ==
  IF s # <<>> /\ IsSpace(Head(s)) THEN trimStart(Tail(s)) ELSE s

RECURSIVE trimEnd(_)
trimEnd(s) ==
  IF s # <<>> /\ IsSpace(s[Len(s)]) THEN trimEnd(SubSeq(s, 1, Len(s) - 1)) ELSE s

trim(s) == trimEnd(trimStart(s))

\* String.prototype.includes
includes(s, needle) ==
  \E i \in 0..(Len(s) - Len(needle)) : \A j \in 1..Len(needle) : s[i + j] = needle[j]

DigitChars == <<"0","1","2","3","4","5","6","7","8","9">>

RECURSIVE NumText(_)
NumText(n) ==
  IF n < Len(DigitChars) THEN <<DigitChars[n + 1]>>
  ELSE NumText(n \div Len(DigitChars)) \o <<DigitChars[(n % Len(DigitChars)) + 1]>>

\* String(v), as a template literal or Array.prototype.join renders a value
ToText(v) ==
  CASE v.t = "str" -> v.s
    [] v.t = "num" -> NumText(v.n)
    [] OTHER -> <<>>

\* Array.prototype.join(", ") over a sequence of values
RECURSIVE join(_)
join(vs) ==
  IF vs = <<>> THEN <<>>
  ELSE IF Len(vs) = 1 THEN ToText(vs[1])
  ELSE ToText(vs[1]) \o <<",", " ">> \o join(Tail(vs))

-----------------------------------------------------------------------------
(* Results of a call: a list, or a thrown TypeError *)

Ok(out) == [threw |-> FALSE, out |-> out]

Thrown == [threw |-> TRUE, out |-> <<>>]

\* for (const x of seq) { ...Body(x) pushes findings or throws... }
ForEach(seq, Body(_)) ==
  LET RECURSIVE go(_)
      go(i) ==
        IF i > Len(seq) THEN Ok(<<>>)
        ELSE LET b == Body(seq[i])
             IN  IF b.threw THEN Thrown
                 ELSE LET r == go(i + 1)
                      IN  IF r.threw THEN Thrown ELSE Ok(b.out \o r.out)
  IN  go(1)

-----------------------------------------------------------------------------
(* Diagram access *)

Nodes(d) == Elems(d.nodes)

Edges(d) == Elems(d.edges)

\* x.data?.display_properties, as the list that ?.find searches
DisplayProps(x) ==
  IF x.data.t = "obj" THEN Elems(x.data.display_properties) ELSE <<>>

\* x.data?.display_properties?.find(p => p.key === key)?.value
PropValue(x, key) ==
  LET ps == DisplayProps(x)
      hits == {i \in 1..Len(ps) : ps[i].key = key}
  IN  IF hits = {} THEN Undef
      ELSE ps[CHOOSE i \in hits : \A j \in hits : i <= j].value

\* node.data?.ports || []
Ports(n) == IF n.data.t = "obj" THEN Elems(n.data.ports) ELSE <<>>

\* diagram.nodes?.find(n => n.id === id)
FindById(xs, id) ==
  LET hits == {i \in 1..Len(xs) : xs[i].id = id}
  IN  IF hits = {} THEN Undef
      ELSE xs[CHOOSE i \in hits : \A j \in hits : i <= j]

getNodeName(d, nodeId) ==
  LET node == FindById(Nodes(d), nodeId)
  IN  IF node = Undef THEN nodeId
      ELSE OrElse(PropValue(node, "reference_name"), nodeId)

getEdgeName(d, edgeId) ==
  LET edge == FindById(Edges(d), edgeId)
  IN  IF edge = Undef THEN edgeId
      ELSE OrElse(PropValue(edge, "reference_name"), edgeId)

\* new Set(nodes.filter(n => n.type === "ghostNode").map(n => n.id))
GhostNodes(d) == {Nodes(d)[i].id : i \in {j \in 1..Len(Nodes(d)) : Nodes(d)[j].type = "ghostNode"}}

Finding(id, type, tmpl, args) ==
  [id |-> id, type |-> type, message |-> [tmpl |-> tmpl, args |-> args]]

-----------------------------------------------------------------------------
(* Rule: floating wire *)

IsFloating_NoGhost(d, edge) ==
  ~Truthy(edge.source) \/ ~Truthy(edge.target)

\* !edge.source || !edge.target || sourceIsGhost || targetIsGhost
IsFloating(d, edge) ==
  \/ ~Truthy(edge.source)
  \/ ~Truthy(edge.target)
  \/ edge.source \in GhostNodes(d)
  \/ edge.target \in GhostNodes(d)

checkFloatingWires(d) ==
  ForEach(Edges(d), LAMBDA edge :
    IF edge.type = "bundledEdge" THEN Ok(<<>>)
    ELSE IF IsFloating(d, edge)
         THEN Ok(<<Finding(edge.id, "error", "floatingWire",
                           <<OrElse(PropValue(edge, "reference_name"), edge.id)>>)>>)
         ELSE Ok(<<>>))

-----------------------------------------------------------------------------
(* Rule: orphan component *)

IsSpecialNode(node) == node.type = "bundleNode" \/ node.type = "ghostNode"

IsOrphan_CountsBundled(d, node) ==
  \A i \in 1..Len(Edges(d)) :
    ~(node.id = Edges(d)[i].source \/ node.id = Edges(d)[i].target)

\* the inner loop over the edges: no non-bundled edge names the node
IsOrphan(d, node) ==
  \A i \in 1..Len(Edges(d)) :
    \/ Edges(d)[i].type = "bundledEdge"
    \/ ~(node.id = Edges(d)[i].source \/ node.id = Edges(d)[i].target)

checkOrphanComponents(d) ==
  ForEach(Nodes(d), LAMBDA node :
    IF IsSpecialNode(node) THEN Ok(<<>>)
    ELSE IF IsOrphan(d, node)
         THEN Ok(<<Finding(node.id, "error", "orphan", <<getNodeName(d, node.id)>>)>>)
         ELSE Ok(<<>>))

-----------------------------------------------------------------------------
(* Insertion-ordered Map<key, list>: a sequence of [key, vals] entries *)

MapPush(m, k, v) ==
  IF \E i \in 1..Len(m) : m[i].key = k
  THEN [i \in 1..Len(m) |-> IF m[i].key = k
                            THEN [key |-> k, vals |-> Append(m[i].vals, v)]
                            ELSE m[i]]
  ELSE Append(m, [key |-> k, vals |-> <<v>>])

-----------------------------------------------------------------------------
(* Rule: duplicate reference name *)

DuplicateKey_Resolved(d, node) == getNodeName(d, node.id)

\* the name a node is grouped under: its reference_name property value
DuplicateKey(d, node) == PropValue(node, "reference_name")

nameMap(d) ==
  LET ns == Nodes(d)
      RECURSIVE build(_, _)
      build(i, m) ==
        IF i > Len(ns) THEN m
        ELSE LET refName == DuplicateKey(d, ns[i])
             IN  IF IsSpecialNode(ns[i]) \/ ~Truthy(refName) THEN build(i + 1, m)
                 ELSE build(i + 1, MapPush(m, refName, ns[i].id))
  IN  build(1, <<>>)

checkDuplicates(d) ==
  ForEach(nameMap(d), LAMBDA entry :
    IF Len(entry.vals) > 1
    THEN Ok(<<Finding(Str(join(entry.vals)), "error", "duplicate",
                      <<entry.key, Num(Len(entry.vals))>>)>>)
    ELSE Ok(<<>>))

-----------------------------------------------------------------------------
(* Rule: multiple wires per pin *)

CountsForPins_WithGhosts(d, edge) == edge.type # "bundledEdge"

\* the two `continue` guards of the edge loop
CountsForPins(d, edge) ==
  /\ edge.type # "bundledEdge"
  /\ ~(edge.source \in GhostNodes(d) \/ edge.target \in GhostNodes(d))

pinConnectionMap(d) ==
  LET es == Edges(d)
      PushPin(m, pin, id) == IF Truthy(pin) THEN MapPush(m, pin, id) ELSE m
      RECURSIVE build(_, _)
      build(i, m) ==
        IF i > Len(es) THEN m
        ELSE IF ~CountsForPins(d, es[i]) THEN build(i + 1, m)
        ELSE build(i + 1,
               PushPin(PushPin(m, es[i].sourceHandle, es[i].id),
                       es[i].targetHandle, es[i].id))
  IN  build(1, <<>>)

checkMultipleWires(d) ==
  ForEach(pinConnectionMap(d), LAMBDA entry :
    IF Len(entry.vals) > 1
    THEN Ok(<<Finding(Str(join(entry.vals)), "error", "multipleWires",
                      <<entry.key,
                        Str(join([k \in 1..Len(entry.vals) |-> getEdgeName(d, entry.vals[k])]))>>)>>)
    ELSE Ok(<<>>))

-----------------------------------------------------------------------------
(* Pin-function index: pinMap, built by both role rules *)

\* every pin of the diagram in nodes -> ports -> pins order
AllPins(d) ==
  LET ns == Nodes(d)
      RECURSIVE ofPorts(_)
      ofPorts(ps) == IF ps = <<>> THEN <<>> ELSE Elems(Head(ps).pins) \o ofPorts(Tail(ps))
      RECURSIVE ofNodes(_)
      ofNodes(i) == IF i > Len(ns) THEN <<>> ELSE ofPorts(Ports(ns[i])) \o ofNodes(i + 1)
  IN  ofNodes(1)

\* a map whose set keeps the first value written under a key
MapSet_FirstWins(m, k, v) == [x \in (DOMAIN m) \cup {k} |-> IF x \in DOMAIN m THEN m[x] ELSE v]

\* pinMap.set(k, v)
MapSet(m, k, v) == [x \in (DOMAIN m) \cup {k} |-> IF x = k THEN v ELSE m[x]]

\* a lookup that reads an unknown pin as ground
MapGet_Fallback(m, k) == IF k \in DOMAIN m THEN m[k] ELSE Str(<<"G","N","D">>)

\* pinMap.get(k)
MapGet(m, k) == IF k \in DOMAIN m THEN m[k] ELSE Undef

EmptyMap == [x \in {} |-> Undef]

\* if (pin.id && pin.function) pinMap.set(pin.id, pin.function.toUpperCase());
\* toUpperCase is not a function on a number: the loop throws
BuildPinMap(d) ==
  LET ps == AllPins(d)
      RECURSIVE build(_, _)
      build(i, m) ==
        IF i > Len(ps) THEN [threw |-> FALSE, map |-> m]
        ELSE IF ~(Truthy(ps[i].id) /\ Truthy(ps[i].function)) THEN build(i + 1, m)
        ELSE IF ps[i].function.t # "str" THEN [threw |-> TRUE, map |-> EmptyMap]
        ELSE build(i + 1, MapSet(m, ps[i].id, Str(toUpperCase(ps[i].function.s))))
  IN  build(1, EmptyMap)

PWR == <<"P","W","R">>

GND == <<"G","N","D">>

TXp == <<"T","X","+">>

TXm == <<"T","X","-">>

RXp == <<"R","X","+">>

RXm == <<"R","X","-">>

-----------------------------------------------------------------------------
(* Rule: invalid power connection *)

\* the table with its first row listed twice
illegalCombos_Duplicated ==
  << <<PWR, GND>>, <<PWR, GND>>, <<GND, PWR>>,
     <<PWR, TXp>>, <<PWR, TXm>>, <<PWR, RXp>>, <<PWR, RXm>>,
     <<TXp, PWR>>, <<TXm, PWR>>, <<RXp, PWR>>, <<RXm, PWR>>,
     <<GND, TXp>>, <<GND, TXm>>, <<GND, RXp>>, <<GND, RXm>>,
     <<TXp, GND>>, <<TXm, GND>>, <<RXp, GND>>, <<RXm, GND>> >>

illegalCombos ==
  << <<PWR, GND>>, <<GND, PWR>>,
     <<PWR, TXp>>, <<PWR, TXm>>, <<PWR, RXp>>, <<PWR, RXm>>,
     <<TXp, PWR>>, <<TXm, PWR>>, <<RXp, PWR>>, <<RXm, PWR>>,
     <<GND, TXp>>, <<GND, TXm>>, <<GND, RXp>>, <<GND, RXm>>,
     <<TXp, GND>>, <<TXm, GND>>, <<RXp, GND>>, <<RXm, GND>> >>

checkPowerConnections(d) ==
  LET pm == BuildPinMap(d)
  IN  IF pm.threw THEN Thrown
      ELSE ForEach(Edges(d), LAMBDA edge :
        LET sourceFn == MapGet(pm.map, edge.sourceHandle)
            targetFn == MapGet(pm.map, edge.targetHandle)
        IN  IF edge.type = "bundledEdge" THEN Ok(<<>>)
            ELSE IF ~Truthy(sourceFn) \/ ~Truthy(targetFn) THEN Ok(<<>>)
            ELSE ForEach(illegalCombos, LAMBDA combo :
                   IF sourceFn.s = combo[1] /\ targetFn.s = combo[2]
                   THEN Ok(<<Finding(edge.id, "error", "powerConnection",
                                     <<getEdgeName(d, edge.id), sourceFn, targetFn>>)>>)
                   ELSE Ok(<<>>)))

-----------------------------------------------------------------------------
(* Rule: invalid serial connection *)

serialPins == {TXp, TXm, RXp, RXm}

validCombos_OneWay == {<<TXp, RXp>>, <<TXm, RXm>>}

validCombos == {<<TXp, RXp>>, <<TXm, RXm>>, <<RXp, TXp>>, <<RXm, TXm>>}

checkSerialConnections(d) ==
  LET pm == BuildPinMap(d)
  IN  IF pm.threw THEN Thrown
      ELSE ForEach(Edges(d), LAMBDA edge :
        LET sourceFn == MapGet(pm.map, edge.sourceHandle)
            targetFn == MapGet(pm.map, edge.targetHandle)
        IN  IF ~Truthy(sourceFn) \/ ~Truthy(targetFn) THEN Ok(<<>>)
            ELSE IF sourceFn.s \notin serialPins \/ targetFn.s \notin serialPins THEN Ok(<<>>)
            ELSE IF <<sourceFn.s, targetFn.s>> \notin validCombos
                 THEN Ok(<<Finding(edge.id, "error", "serialConnection",
                                   <<getEdgeName(d, edge.id), sourceFn, targetFn>>)>>)
                 ELSE Ok(<<>>))

-----------------------------------------------------------------------------
(* Rules: missing part name, missing length *)

\* a test for an absent or empty value that does not trim
MissingOrBlank_NoTrim(v) == [threw |-> FALSE, is |-> ~Truthy(v)]

\* !v || v.trim() === "" : a result, or the TypeError of calling trim on a number
MissingOrBlank(v) ==
  IF ~Truthy(v) THEN [threw |-> FALSE, is |-> TRUE]
  ELSE IF v.t # "str" THEN [threw |-> TRUE, is |-> FALSE]
  ELSE [threw |-> FALSE, is |-> trim(v.s) = <<>>]

checkMissingPartNames(d) ==
  ForEach(Nodes(d), LAMBDA node :
    LET m == MissingOrBlank(PropValue(node, "part_name"))
    IN  IF IsSpecialNode(node) THEN Ok(<<>>)
        ELSE IF m.threw THEN Thrown
        ELSE IF m.is THEN Ok(<<Finding(node.id, "warning", "missingPartName", <<node.id>>)>>)
        ELSE Ok(<<>>))

checkMissingLengths(d) ==
  ForEach(Edges(d), LAMBDA edge :
    LET m == MissingOrBlank(PropValue(edge, "length"))
    IN  IF edge.type = "bundledEdge" THEN Ok(<<>>)
        ELSE IF m.threw THEN Thrown
        ELSE IF m.is THEN Ok(<<Finding(edge.id, "warning", "missingLength",
                                       <<getEdgeName(d, edge.id)>>)>>)
        ELSE Ok(<<>>))

-----------------------------------------------------------------------------
(* Rule: floating bundled wire *)

UnknownCable == Str(<<"U","n","k","n","o","w","n"," ","c","a","b","l","e">>)

UnknownColor == Str(<<"u","n","k","n","o","w","n"," ","c","o","l","o","r">>)

\* edge.data?.parent_id
ParentId(edge) == IF edge.data.t = "obj" THEN edge.data.parent_id ELSE Undef

\* the parent cable named as getEdgeName names an edge
cableName_Resolved(d, edge) == getEdgeName(d, ParentId(edge))

\* parentEdge?.data?.display_properties?.find(reference_name)?.value || "Unknown cable"
cableName(d, edge) ==
  LET parentEdge == FindById(Edges(d), ParentId(edge))
  IN  IF parentEdge = Undef THEN UnknownCable
      ELSE OrElse(PropValue(parentEdge, "reference_name"), UnknownCable)

checkFloatingBundledWires(d) ==
  ForEach(Edges(d), LAMBDA edge :
    IF edge.type # "bundledEdge" THEN Ok(<<>>)
    ELSE IF IsFloating(d, edge)
         THEN LET insulation == PropValue(edge, "insulation")
              IN  Ok(<<Finding(edge.id, "error", "floatingBundledWire",
                               <<cableName(d, edge), OrElse(insulation, UnknownColor)>>)>>)
         ELSE Ok(<<>>))

-----------------------------------------------------------------------------
(* generateTestInstructions *)

Instruction(id, category, args) ==
  [id |-> id, category |-> category, instruction |-> args]

\* props.some(p => p.value?.toUpperCase().includes(needle)):
\* "true" at the first hit, "throw" at a value that is neither nullish nor a
\* string (toUpperCase is not a function), "false" at the end of the list
SomeIncludes(props, needle) ==
  LET RECURSIVE go(_)
      go(i) ==
        IF i > Len(props) THEN "false"
        ELSE LET v == props[i].value
             IN  IF v.t = "undef" THEN go(i + 1)
                 ELSE IF v.t # "str" THEN "throw"
                 ELSE IF includes(toUpperCase(v.s), needle) THEN "true"
                 ELSE go(i + 1)
  IN  go(1)

\* a test for the presence of the property, whatever its value
HasLength_Present(edge) == PropValue(edge, "length") # Undef

HasLength_NumberOnly(edge) == PropValue(edge, "length").t = "num" /\ Truthy(PropValue(edge, "length"))

\* if (length)
HasLength(edge) == Truthy(PropValue(edge, "length"))

TX == <<"T","X">>

RX == <<"R","X">>

\* an edge skipped when bundled or when one of its ends is not connected
SkipsTests_Unconnected(edge) ==
  edge.type = "bundledEdge" \/ ~Truthy(edge.source) \/ ~Truthy(edge.target)

\* if (edge.type === "bundledEdge") continue;
SkipsTests(edge) == edge.type = "bundledEdge"

generateTestInstructions(d) ==
  ForEach(Edges(d), LAMBDA edge :
    LET props == DisplayProps(edge)
        refName == PropValue(edge, "reference_name")
        insulation == PropValue(edge, "insulation")
        length == PropValue(edge, "length")
        name == OrElse(refName, edge.id)
        color == IF Truthy(insulation) THEN Str(toUpperCase(insulation.s)) ELSE UnknownColor
        hasPWR == SomeIncludes(props, PWR)
        hasGND == SomeIncludes(props, GND)
        hasTX == SomeIncludes(props, TX)
        hasRX == SomeIncludes(props, RX)
    IN  IF SkipsTests(edge) THEN Ok(<<>>)
        ELSE IF Truthy(insulation) /\ insulation.t # "str" THEN Thrown
        ELSE IF "throw" \in {hasPWR, hasGND, hasTX, hasRX} THEN Thrown
        ELSE Ok(<<Instruction(edge.id, "continuity", <<name, color>>)>>
                \o (IF HasLength(edge)
                    THEN <<Instruction(edge.id, "mechanical", <<name, length>>)>>
                    ELSE <<>>)
                \o (IF hasPWR = "true" /\ hasGND = "true"
                    THEN <<Instruction(edge.id, "power", <<name>>)>>
                    ELSE <<>>)
                \o (IF hasTX = "true" \/ hasRX = "true"
                    THEN <<Instruction(edge.id, "signal",
                                       <<name, Str(IF hasTX = "true" THEN TX ELSE RX)>>)>>
                    ELSE <<>>)))

-----------------------------------------------------------------------------
(* runERC *)

RuleCalls_CatalogOrder(d) ==
  << checkFloatingWires(d), checkFloatingBundledWires(d), checkOrphanComponents(d),
     checkDuplicates(d), checkMultipleWires(d), checkPowerConnections(d),
     checkSerialConnections(d), checkMissingPartNames(d), checkMissingLengths(d) >>

\* the spread calls of the results array literal, in source order
RuleCalls(d) ==
  << checkFloatingWires(d), checkOrphanComponents(d), checkDuplicates(d),
     checkMultipleWires(d), checkPowerConnections(d), checkSerialConnections(d),
     checkMissingPartNames(d), checkMissingLengths(d), checkFloatingBundledWires(d) >>

\* [...rule results], then generateTestInstructions; a throw in any call propagates
Collect(calls, t) ==
  LET RECURSIVE concat(_)
      concat(i) == IF i > Len(calls) THEN <<>> ELSE calls[i].out \o concat(i + 1)
  IN  IF (\E i \in 1..Len(calls) : calls[i].threw) \/ t.threw
      THEN [threw |-> TRUE, results |-> <<>>, tests |-> <<>>]
      ELSE [threw |-> FALSE, results |-> concat(1), tests |-> t.out]

runERC_Unguarded(d) ==
  IF d.nodes.t # "arr" \/ d.edges.t # "arr"
  THEN [threw |-> TRUE, results |-> <<>>, tests |-> <<>>]
  ELSE Collect(RuleCalls(d), generateTestInstructions(d))

runERC(d) == Collect(RuleCalls(d), generateTestInstructions(d))

-----------------------------------------------------------------------------
(* Message texts *)

\* the characters outside ASCII that the templates use
EmDash == "U+2014"

Arrow == "U+2192"

\* the literal pieces of each rule's template string, around its ${...} slots
Template(tmpl) ==
  CASE tmpl = "floatingWire" ->
    <<<<"W","i","r","e"," ","\"">>,
      <<"\""," ","i","s"," ","f","l","o","a","t","i","n","g"," ",EmDash," ",
       "o","n","e"," ","e","n","d"," ","i","s"," ","n","o","t"," ","c","o",
       "n","n","e","c","t","e","d",".">>>>
    [] tmpl = "orphan" ->
    <<<<"C","o","m","p","o","n","e","n","t"," ">>,
      <<" ","i","s"," ","a","n"," ","o","r","p","h","a","n"," ","c","o","m",
       "p","o","n","e","n","t",".">>>>
    [] tmpl = "duplicate" ->
    <<<<"D","u","p","l","i","c","a","t","e"," ","r","e","f","e","r","e","n",
       "c","e"," ","n","a","m","e"," ","d","e","t","e","c","t","e","d",":",
       " ","\"">>,
      <<"\""," ","a","p","p","e","a","r","s"," ">>,
      <<" ","t","i","m","e","s",".">>>>
    [] tmpl = "multipleWires" ->
    <<<<"P","i","n"," ">>,
      <<" ","h","a","s"," ","m","u","l","t","i","p","l","e"," ","w","i","r",
       "e","s"," ","c","o","n","n","e","c","t","e","d",":"," ">>,
      <<>>>>
    [] tmpl = "powerConnection" ->
    <<<<"I","n","v","a","l","i","d"," ","p","o","w","e","r"," ","c","o","n",
       "n","e","c","t","i","o","n"," ","o","n"," ","w","i","r","e"," ","\"">>,
      <<"\"",":"," ">>,
      <<" ",Arrow," ">>,
      <<>>>>
    [] tmpl = "serialConnection" ->
    <<<<"I","n","v","a","l","i","d"," ","s","e","r","i","a","l"," ","c","o",
       "n","n","e","c","t","i","o","n"," ","o","n"," ","w","i","r","e"," ",
       "\"">>,
      <<"\"",":"," ">>,
      <<" ",Arrow," ">>,
      <<>>>>
    [] tmpl = "missingPartName" ->
    <<<<"C","o","m","p","o","n","e","n","t"," ">>,
      <<" ","i","s"," ","m","i","s","s","i","n","g"," ","a"," ","p","a","r",
       "t"," ","n","a","m","e",".">>>>
    [] tmpl = "missingLength" ->
    <<<<"W","i","r","e"," ","\"">>,
      <<"\""," ","h","a","s"," ","n","o"," ","l","e","n","g","t","h"," ","a",
       "s","s","i","g","n","e","d",".">>>>
    [] tmpl = "floatingBundledWire" ->
    <<<<"W","i","r","e"," ","i","n"," ","c","a","b","l","e"," ","\"">>,
      <<"\""," ","(">>,
      <<")"," ","i","s"," ","f","l","o","a","t","i","n","g"," ",EmDash," ",
       "o","n","e"," ","e","n","d"," ","i","s"," ","n","o","t"," ","c","o",
       "n","n","e","c","t","e","d",".">>>>

\* the template literal: pieces and rendered slot values alternate
MessageText(m) ==
  LET ps == Template(m.tmpl)
      RECURSIVE fill(_)
      fill(i) == IF i > Len(m.args) THEN <<>> ELSE ToText(m.args[i]) \o ps[i + 1] \o fill(i + 1)
  IN  ps[1] \o fill(1)

-----------------------------------------------------------------------------
(* page.tsx: check selection and the filter of handleRunERC *)

\* CHECK_OPTIONS.map(opt => opt.id)
CHECK_OPTIONS ==
  {"floatingWires", "floatingBundledWires", "orphanComponents", "duplicates", "multipleWires",
   "powerConnections", "serialConnections", "missingPartNames", "missingLengths"}

\* the lower-case letter of every upper-case letter
LowerOf ==
  [c \in {UpperLetters[i] : i \in 1..Len(UpperLetters)} |->
     LowerLetters[CHOOSE i \in 1..Len(UpperLetters) : UpperLetters[i] = c]]

LowerChar(c) == IF c \in DOMAIN LowerOf THEN LowerOf[c] ELSE c

\* String.prototype.toLowerCase
toLowerCase(s) == [i \in 1..Len(s) |-> LowerChar(s[i])]

\* the chain of msg.includes tests: the check a message is filed under, or
\* "none" for a message that matches no test and is always kept
Classify(msg) ==
  IF includes(msg, <<"f","l","o","a","t","i","n","g">>) /\ includes(msg, <<"c","a","b","l","e">>) THEN "floatingBundledWires"
  ELSE IF includes(msg, <<"f","l","o","a","t","i","n","g">>) THEN "floatingWires"
  ELSE IF includes(msg, <<"o","r","p","h","a","n">>) THEN "orphanComponents"
  ELSE IF includes(msg, <<"d","u","p","l","i","c","a","t","e">>) THEN "duplicates"
  ELSE IF includes(msg, <<"m","u","l","t","i","p","l","e"," ","w","i","r","e","s">>) THEN "multipleWires"
  ELSE IF includes(msg, <<"p","o","w","e","r"," ","c","o","n","n","e","c","t","i","o","n">>) THEN "powerConnections"
  ELSE IF includes(msg, <<"s","e","r","i","a","l"," ","c","o","n","n","e","c","t","i","o","n">>) THEN "serialConnections"
  ELSE IF includes(msg, <<"m","i","s","s","i","n","g"," ","a"," ","p","a","r","t"," ","n","a","m","e">>) THEN "missingPartNames"
  ELSE IF includes(msg, <<"n","o"," ","l","e","n","g","t","h">>) THEN "missingLengths"
  ELSE "none"

\* results.filter(r => ...)
filteredResults(rs, enabled) ==
  SelectSeq(rs, LAMBDA r :
    LET check == Classify(toLowerCase(MessageText(r.message)))
    IN  check = "none" \/ check \in enabled)

-----------------------------------------------------------------------------
(* Input diagrams *)

MaxEdges == 2

MaxNamed == 3

NodeId(i) == Str(<<"N", DigitChars[i + 1]>>)

EdgeId(i) == Str(<<"E", DigitChars[i + 1]>>)

PinId(i) == Str(<<"P", DigitChars[i + 1]>>)

Prop(key, value) == [key |-> key, value |-> value]

Pin(id, function) == [id |-> id, function |-> function]

Port(pins) == [pins |-> pins]

NodeData(props, ports) == [t |-> "obj", display_properties |-> props, ports |-> ports]

EdgeData(props, parent) == [t |-> "obj", display_properties |-> props, parent_id |-> parent]

Node(id, type, data) == [id |-> id, type |-> type, data |-> data]

Edge(id, type, source, target, sourceHandle, targetHandle, data) ==
  [id |-> id, type |-> type, source |-> source, target |-> target,
   sourceHandle |-> sourceHandle, targetHandle |-> targetHandle, data |-> data]

Diagram(nodes, edges) == [nodes |-> nodes, edges |-> edges]

\* display_properties holding the given properties, without those marked absent
PropsArr(ps) == Arr(SelectSeq(ps, LAMBDA p : p.value # Undef))

\* "component" and "wire" stand for any type tag the rules do not name (or none)
NodeTypes == {"component", "bundleNode", "ghostNode"}

EdgeTypes == {"wire", "bundledEdge"}

\* the choices for an array of 0..n elements, each drawn from Choices
ChoicesUpTo(n, Choices) == UNION {[1..k -> Choices] : k \in 0..n}

\* wiring: node types and edge ends vary; no properties, no pins
WiringEnds == {Undef, NodeId(1), NodeId(2)}

WiringNodeChoices == {<<>>} \cup {<<ty>> : ty \in NodeTypes} \cup (NodeTypes \X NodeTypes)

WiringEdgeChoices == EdgeTypes \X WiringEnds \X WiringEnds

WiringNodes(tys) == Arr([i \in 1..Len(tys) |-> Node(NodeId(i), tys[i], Undef)])

WiringEdges(c) ==
  Arr([i \in 1..Len(c) |-> Edge(EdgeId(i), c[i][1], c[i][2], c[i][3], Undef, Undef, Undef)])

\* names: node types and reference names vary (absent, empty, a name, the id of N1)
RefNames == {Undef, Str(<<>>), Str(<<"A">>), NodeId(1)}

NamedNodeChoices == NodeTypes \X RefNames

NamedNodes(c) ==
  Arr([i \in 1..Len(c) |->
        Node(NodeId(i), c[i][1],
             IF c[i][2] = Undef THEN Undef
             ELSE NodeData(Arr(<<Prop("reference_name", c[i][2])>>), Undef))])

\* pins: a component N1 and a ghost node N2; edge ends and handles vary
Handles ==
  {<<PinId(1), Undef>>, <<Undef, PinId(1)>>, <<PinId(1), PinId(2)>>,
   <<PinId(2), PinId(1)>>, <<PinId(1), PinId(1)>>}

PinEnds == {<<NodeId(1), NodeId(1)>>, <<NodeId(2), NodeId(1)>>, <<NodeId(1), NodeId(2)>>}

PinEdgeChoices == EdgeTypes \X PinEnds \X Handles

PinNodes == Arr(<<Node(NodeId(1), "component", Undef), Node(NodeId(2), "ghostNode", Undef)>>)

PinEdges(c) ==
  Arr([i \in 1..Len(c) |->
        Edge(EdgeId(i), c[i][1], c[i][2][1], c[i][2][2], c[i][3][1], c[i][3][2], Undef)])

\* roles: one component with pins P1 and P2 whose functions vary
FnVals ==
  {Undef, Str(<<>>), Str(PWR), Str(GND), Str(TXp), Str(TXm), Str(RXp), Str(RXm),
   Str(<<"p","w","r">>), Str(<<"t","x","+">>), Str(<<"S","I","G">>), Num(5)}

RoleEnds ==
  {<<PinId(1), PinId(2)>>, <<PinId(2), PinId(1)>>, <<PinId(1), Undef>>}

RoleEdgeChoices == EdgeTypes \X RoleEnds

RoleNodes(f1, f2) ==
  Arr(<<Node(NodeId(1), "component",
             NodeData(Undef, Arr(<<Port(Arr(<<Pin(PinId(1), f1), Pin(PinId(2), f2)>>))>>)))>>)

RoleEdges(c) ==
  Arr([i \in 1..Len(c) |->
        Edge(EdgeId(i), c[i][1], NodeId(1), NodeId(1), c[i][2][1], c[i][2][2], Undef)])

\* index: two pins that may share an id, laid out in one port, in two ports of
\* one node, or in two nodes; P2 is declared by no pin when both pins are P1
IndexFns == {Undef, Str(PWR), Str(<<"t","x","+">>), Str(RXm)}

IndexLayouts == {"onePort", "twoPorts", "twoNodes"}

IndexEnds ==
  {<<PinId(1), PinId(2)>>, <<PinId(1), PinId(1)>>, <<PinId(1), Undef>>}

IndexEdgeChoices == EdgeTypes \X IndexEnds

IndexNodes(layout, first, second) ==
  CASE layout = "onePort" ->
         Arr(<<Node(NodeId(1), "component", NodeData(Undef, Arr(<<Port(Arr(<<first, second>>))>>)))>>)
    [] layout = "twoPorts" ->
         Arr(<<Node(NodeId(1), "component",
                    NodeData(Undef, Arr(<<Port(Arr(<<first>>)), Port(Arr(<<second>>))>>)))>>)
    [] layout = "twoNodes" ->
         Arr(<<Node(NodeId(1), "component", NodeData(Undef, Arr(<<Port(Arr(<<first>>))>>))),
               Node(NodeId(2), "component", NodeData(Undef, Arr(<<Port(Arr(<<second>>))>>)))>>)

IndexEdges(c) ==
  Arr([i \in 1..Len(c) |->
        Edge(EdgeId(i), c[i][1], NodeId(1), NodeId(1), c[i][2][1], c[i][2][2], Undef)])

\* properties: part name, length and insulation vary in presence and shape
PartVals == {Undef, Str(<<>>), Str(<<" ">>), Str(<<"1","8","6","5","0">>), Num(5)}

LengthVals == {Undef, Str(<<>>), Str(<<" ">>), Str(<<"1","2">>), Num(12), Num(0)}

InsulationVals == {Undef, Str(<<"r","e","d">>), Num(7)}

PropsNodes(pn) ==
  Arr(<<Node(NodeId(1), "component", NodeData(PropsArr(<<Prop("part_name", pn)>>), Undef))>>)

PropsEdges(type, length, insulation) ==
  Arr(<<Edge(EdgeId(1), type, NodeId(1), NodeId(1), Undef, Undef,
             EdgeData(PropsArr(<<Prop("length", length), Prop("insulation", insulation)>>), Undef))>>)

\* test instructions: up to MaxEdges edges whose type, length and other
\* property values vary; every second edge has no source
TestLengths == {Undef, Str(<<>>), Str(<<" ">>), Str(<<"1","2">>)}

\* <<insulation, signal>> values
TestValues ==
  {<<Undef, Undef>>,
   <<Str(<<"r","e","d">>), Str(<<"t","x">>)>>,
   <<Str(<<"r","x">>), Str(<<"T","X","1">>)>>,
   <<Undef, Str(<<"a","R","x">>)>>}

TestEdgeChoices == EdgeTypes \X TestLengths \X TestValues

TestEdges(c) ==
  Arr([i \in 1..Len(c) |->
        Edge(EdgeId(i), c[i][1], IF i % 2 = 1 THEN NodeId(1) ELSE Undef, NodeId(1), Undef, Undef,
             EdgeData(PropsArr(<<Prop("length", c[i][2]), Prop("insulation", c[i][3][1]),
                                 Prop("signal", c[i][3][2])>>), Undef))])

\* cables: a cable edge E1 whose reference name varies, and up to MaxEdges
\* bundled edges whose parent_id, target and insulation vary; N2 is a ghost
CableNames == {Undef, Str(<<>>), Str(<<"C","1">>)}

CableParents == {Undef, EdgeId(1), EdgeId(9)}

CableTargets == {Undef, NodeId(1), NodeId(2)}

CableEdgeChoices == CableParents \X CableTargets \X {Undef, Str(<<"r","e","d">>)}

CableNodes == Arr(<<Node(NodeId(1), "component", Undef), Node(NodeId(2), "ghostNode", Undef)>>)

CableEdges(name, c) ==
  Arr(<<Edge(EdgeId(1), "wire", NodeId(1), NodeId(1), Undef, Undef,
             EdgeData(PropsArr(<<Prop("reference_name", name)>>), Undef))>>
      \o [i \in 1..Len(c) |->
            Edge(EdgeId(i + 1), "bundledEdge", NodeId(1), c[i][2], Undef, Undef,
                 EdgeData(PropsArr(<<Prop("insulation", c[i][3])>>), c[i][1]))])

\* page: one component whose reference name varies and at most one edge from
\* it whose type, target and reference name vary; names may contain the words
\* the filter looks for
PageNames == {Undef, Str(<<"L","1">>), Str(<<"f","l","o","a","t","i","n","g">>)}

PageEdgeNames == {Undef, Str(<<"W","1">>), Str(<<"C","a","b","l","e","1">>)}

PageEdgeChoices == EdgeTypes \X {Undef, NodeId(1)} \X PageEdgeNames

PageNodes(name) ==
  Arr(<<Node(NodeId(1), "component", NodeData(PropsArr(<<Prop("reference_name", name)>>), Undef))>>)

PageEdges(c) ==
  Arr(<<Edge(EdgeId(1), c[1], NodeId(1), c[2], Undef, Undef,
             EdgeData(PropsArr(<<Prop("reference_name", c[3])>>), Undef))>>)

\* {}
EmptyDiagram == Diagram(Undef, Undef)

\* the round-trip scenario: Battery1 (P1 = PWR) wired to LED1 (P2 = GND) by E1
RoundTripDiagram ==
  Diagram(
    Arr(<<Node(NodeId(1), "component",
               NodeData(Arr(<<Prop("reference_name", Str(<<"B","a","t","t","e","r","y","1">>)),
                              Prop("part_name", Str(<<"1","8","6","5","0">>))>>),
                        Arr(<<Port(Arr(<<Pin(PinId(1), Str(PWR))>>))>>))),
          Node(NodeId(2), "component",
               NodeData(Arr(<<Prop("reference_name", Str(<<"L","E","D","1">>))>>),
                        Arr(<<Port(Arr(<<Pin(PinId(2), Str(GND))>>))>>)))>>),
    Arr(<<Edge(EdgeId(1), "wire", NodeId(1), NodeId(2), PinId(1), PinId(2),
               EdgeData(Arr(<<Prop("length", Str(<<"1","2">>))>>), Undef))>>))

-----------------------------------------------------------------------------
(* The state machine: the page hands one parsed diagram to runERC *)

\* the page with an input pasted in: every check ticked, nothing shown
Start(d) ==
  /\ diagram = d
  /\ pc = "start"
  /\ results = <<>>
  /\ tests = <<>>
  /\ threw = FALSE
  /\ enabledChecks = CHECK_OPTIONS
  /\ output = <<>>

\* handleRunERC: the button is disabled while no check is ticked; a throw of
\* runERC lands in the catch block and no finding is shown
RunERC ==
  /\ pc = "start"
  /\ enabledChecks # {}
  /\ LET r == runERC(diagram)
     IN  /\ threw' = r.threw
         /\ results' = r.results
         /\ tests' = r.tests
         /\ output' = filteredResults(r.results, enabledChecks)
  /\ pc' = "done"
  /\ UNCHANGED <<diagram, enabledChecks>>

\* a tick changed before the run; one changed after the run leaves the
\* output as it is, so those steps are not explored
toggleCheck(checkId) ==
  /\ pc = "start"
  /\ enabledChecks' = IF checkId \in enabledChecks THEN enabledChecks \ {checkId}
                      ELSE enabledChecks \cup {checkId}
  /\ UNCHANGED <<diagram, pc, results, tests, threw, output>>

toggleAll ==
  /\ pc = "start"
  /\ enabledChecks' = IF Cardinality(enabledChecks) = Cardinality(CHECK_OPTIONS) THEN {}
                      ELSE CHECK_OPTIONS
  /\ UNCHANGED <<diagram, pc, results, tests, threw, output>>

\* setJsonInput(""), setOutput("")
handleClear ==
  /\ pc \in {"start", "done"}
  /\ pc' = "cleared"
  /\ diagram' = Undef
  /\ results' = <<>>
  /\ tests' = <<>>
  /\ threw' = FALSE
  /\ output' = <<>>
  /\ UNCHANGED enabledChecks

Next == RunERC

NextPage ==
  \/ RunERC
  \/ \E checkId \in CHECK_OPTIONS : toggleCheck(checkId)
  \/ toggleAll
  \/ handleClear

Init ==
  \/ Start(EmptyDiagram)
  \/ Start(RoundTripDiagram)
  \/ \E pn \in PartVals : Start(Diagram(PropsNodes(pn), Undef))
  \/ \E pn \in PartVals, ty \in EdgeTypes, len \in LengthVals, ins \in InsulationVals :
       Start(Diagram(PropsNodes(pn), PropsEdges(ty, len, ins)))

Spec == Init /\ [][Next]_vars

InitWiring ==
  \/ \E c \in ChoicesUpTo(MaxEdges, WiringEdgeChoices) : Start(Diagram(Undef, WiringEdges(c)))
  \/ \E tys \in WiringNodeChoices, c \in ChoicesUpTo(MaxEdges, WiringEdgeChoices) :
       Start(Diagram(WiringNodes(tys), WiringEdges(c)))

SpecWiring == InitWiring /\ [][Next]_vars

InitNames ==
  \E c \in ChoicesUpTo(MaxNamed, NamedNodeChoices) : Start(Diagram(NamedNodes(c), Undef))

SpecNames == InitNames /\ [][Next]_vars

InitPins ==
  \E c \in ChoicesUpTo(MaxEdges, PinEdgeChoices) : Start(Diagram(PinNodes, PinEdges(c)))

SpecPins == InitPins /\ [][Next]_vars

InitRoles ==
  \E f1 \in FnVals, f2 \in FnVals, c \in ChoicesUpTo(MaxEdges, RoleEdgeChoices) :
    Start(Diagram(RoleNodes(f1, f2), RoleEdges(c)))

SpecRoles == InitRoles /\ [][Next]_vars

InitTests ==
  \E c \in ChoicesUpTo(MaxEdges, TestEdgeChoices) :
    Start(Diagram(PropsNodes(Str(<<"1","8","6","5","0">>)), TestEdges(c)))

SpecTests == InitTests /\ [][Next]_vars

InitCables ==
  \E name \in CableNames, c \in ChoicesUpTo(MaxEdges, CableEdgeChoices) :
    Start(Diagram(CableNodes, CableEdges(name, c)))

SpecCables == InitCables /\ [][Next]_vars

InitIndex ==
  \E layout \in IndexLayouts, f1 \in IndexFns, p \in {PinId(1), PinId(2)}, f2 \in IndexFns,
     c \in ChoicesUpTo(MaxEdges, IndexEdgeChoices) :
    Start(Diagram(IndexNodes(layout, Pin(PinId(1), f1), Pin(p, f2)), IndexEdges(c)))

SpecIndex == InitIndex /\ [][Next]_vars

InitPage ==
  \/ \E name \in PageNames : Start(Diagram(PageNodes(name), Undef))
  \/ \E name \in PageNames, c \in PageEdgeChoices :
       Start(Diagram(PageNodes(name), PageEdges(c)))

SpecPage == InitPage /\ [][NextPage]_vars

TypeOK ==
  /\ pc \in {"start", "done", "cleared"}
  /\ threw \in BOOLEAN
  /\ enabledChecks \subseteq CHECK_OPTIONS
  /\ pc # "done" => results = <<>> /\ tests = <<>> /\ output = <<>>

-----------------------------------------------------------------------------
(* Properties *)

Done == pc = "done" /\ ~threw

RuleOf(f) == f.message.tmpl

\* how many findings of one rule carry the given id
CountFor(rule, id) ==
  Cardinality({i \in 1..Len(results) : RuleOf(results[i]) = rule /\ results[i].id = id})

CountRule(rule) == Cardinality({i \in 1..Len(results) : RuleOf(results[i]) = rule})

CountTests(category, id) ==
  Cardinality({i \in 1..Len(tests) : tests[i].category = category /\ tests[i].id = id})

\* C1 (as claimed): runERC never throws, whatever the shape of the diagram's values
C1_NeverThrows == pc = "done" => ~threw

\* C2: on the round-trip diagram runERC returns exactly two findings, the
\* missing-part-name warning for N2 and the PWR -> GND power error on E1, and
\* exactly two instructions for E1, one continuity and one mechanical
C2_RoundTrip ==
  (pc = "done" /\ diagram = RoundTripDiagram) =>
    /\ ~threw
    /\ Len(results) = 2
    /\ \E i \in 1..2 :
         /\ results[i].type = "warning"
         /\ RuleOf(results[i]) = "missingPartName"
         /\ results[i].id = NodeId(2)
    /\ \E i \in 1..2 :
         /\ results[i].type = "error"
         /\ RuleOf(results[i]) = "powerConnection"
         /\ results[i].id = EdgeId(1)
         /\ results[i].message.args[2] = Str(PWR)
         /\ results[i].message.args[3] = Str(GND)
    /\ Len(tests) = 2
    /\ CountTests("continuity", EdgeId(1)) = 1
    /\ CountTests("mechanical", EdgeId(1)) = 1

C2_Witness == pc = "done" /\ diagram = RoundTripDiagram /\ Len(results) = 2 /\ Len(tests) = 2

\* C3: on the empty diagram {} runERC completes and returns no finding and no instruction
C3_EmptyDiagram ==
  (pc = "done" /\ diagram = EmptyDiagram) => ~threw /\ results = <<>> /\ tests = <<>>

C3_Witness == pc = "done" /\ diagram = EmptyDiagram /\ ~threw

-----------------------------------------------------------------------------
\* the rule order of the spec's catalog table
CatalogOrder ==
  <<"floatingWire", "floatingBundledWire", "orphan", "duplicate", "multipleWires",
    "powerConnection", "serialConnection", "missingPartName", "missingLength">>

\* the rule order of runERC's results array
CallOrder ==
  <<"floatingWire", "orphan", "duplicate", "multipleWires", "powerConnection",
    "serialConnection", "missingPartName", "missingLength", "floatingBundledWire">>

Rank(order, rule) == CHOOSE i \in 1..Len(order) : order[i] = rule

RulesInOrder(order) ==
  \A i, j \in 1..Len(results) :
    i < j => Rank(order, RuleOf(results[i])) <= Rank(order, RuleOf(results[j]))

\* the position of the edge or node a finding is about (0 when its id names none)
SubjectPos(f) ==
  LET xs == IF RuleOf(f) \in {"orphan", "missingPartName"} THEN Nodes(diagram) ELSE Edges(diagram)
      hits == {k \in 1..Len(xs) : xs[k].id = f.id}
  IN  IF hits = {} THEN 0 ELSE CHOOSE k \in hits : TRUE

SubjectsInOrder ==
  \A i, j \in 1..Len(results) :
    (i < j /\ RuleOf(results[i]) = RuleOf(results[j])
       /\ SubjectPos(results[i]) > 0 /\ SubjectPos(results[j]) > 0)
      => SubjectPos(results[i]) < SubjectPos(results[j])

\* C4 (as claimed): findings are ordered by rule in the catalog order, floating
\* bundled wire second, and within a rule in the order of the edges or nodes
C4_CatalogOrder == Done => RulesInOrder(CatalogOrder) /\ SubjectsInOrder

\* C4 (amended): findings are ordered by rule in the order runERC calls the rules,
\* floating bundled wire last, and within a rule in the order of the edges or nodes
C4_CallOrder == Done => RulesInOrder(CallOrder) /\ SubjectsInOrder

C4_Witness ==
  /\ Done
  /\ \E i, j \in 1..Len(results) :
       /\ i < j
       /\ RuleOf(results[i]) \in {"orphan", "missingPartName", "missingLength"}
       /\ RuleOf(results[j]) = "floatingBundledWire"
  /\ \E i, j \in 1..Len(results) :
       i < j /\ RuleOf(results[i]) = RuleOf(results[j])

\* a node of type ghostNode carries this id
IsGhostId(v) ==
  \E k \in 1..Len(Nodes(diagram)) :
    Nodes(diagram)[k].type = "ghostNode" /\ Nodes(diagram)[k].id = v

\* an end is absent, or an end is the id of a ghost node
FloatingCondition(edge) ==
  \/ edge.source = Undef
  \/ edge.target = Undef
  \/ IsGhostId(edge.source)
  \/ IsGhostId(edge.target)

\* C5: checkFloatingWires emits exactly one error for every non-bundled edge with
\* an absent or ghost-node end and nothing for any other edge; a bundledEdge in
\* that condition gets exactly one finding of checkFloatingBundledWires instead
C5_FloatingWires ==
  Done =>
    /\ \A k \in 1..Len(Edges(diagram)) :
         LET edge == Edges(diagram)[k]
             flagged == FloatingCondition(edge)
         IN  /\ CountFor("floatingWire", edge.id) =
                  (IF edge.type # "bundledEdge" /\ flagged THEN 1 ELSE 0)
             /\ CountFor("floatingBundledWire", edge.id) =
                  (IF edge.type = "bundledEdge" /\ flagged THEN 1 ELSE 0)
    /\ \A i \in 1..Len(results) :
         RuleOf(results[i]) \in {"floatingWire", "floatingBundledWire"} =>
           /\ results[i].type = "error"
           /\ \E k \in 1..Len(Edges(diagram)) : Edges(diagram)[k].id = results[i].id

C5_Witness ==
  /\ Done
  /\ \E k \in 1..Len(Edges(diagram)) :
       LET edge == Edges(diagram)[k]
       IN  /\ edge.type # "bundledEdge"
           /\ edge.source # Undef /\ edge.target # Undef
           /\ IsGhostId(edge.target)
           /\ CountFor("floatingWire", edge.id) = 1
  /\ \E k \in 1..Len(Edges(diagram)) :
       LET edge == Edges(diagram)[k]
       IN  /\ edge.type = "bundledEdge"
           /\ edge.source = Undef
           /\ CountFor("floatingBundledWire", edge.id) = 1
           /\ CountFor("floatingWire", edge.id) = 0

\* C6: checkOrphanComponents emits exactly one error for every node that is
\* neither a bundleNode nor a ghostNode and is no end of any non-bundled edge,
\* and nothing for any other node
C6_Orphans ==
  Done =>
    /\ \A k \in 1..Len(Nodes(diagram)) :
         LET node == Nodes(diagram)[k]
             referenced == \E e \in 1..Len(Edges(diagram)) :
                             /\ Edges(diagram)[e].type # "bundledEdge"
                             /\ node.id \in {Edges(diagram)[e].source, Edges(diagram)[e].target}
         IN  CountFor("orphan", node.id) =
               (IF node.type \notin {"bundleNode", "ghostNode"} /\ ~referenced THEN 1 ELSE 0)
    /\ \A i \in 1..Len(results) :
         RuleOf(results[i]) = "orphan" =>
           /\ results[i].type = "error"
           /\ \E k \in 1..Len(Nodes(diagram)) : Nodes(diagram)[k].id = results[i].id

C6_Witness ==
  /\ Done
  /\ \E k \in 1..Len(Nodes(diagram)), e \in 1..Len(Edges(diagram)) :
       /\ Nodes(diagram)[k].type = "component"
       /\ Edges(diagram)[e].type = "bundledEdge"
       /\ Edges(diagram)[e].source = Nodes(diagram)[k].id
       /\ CountFor("orphan", Nodes(diagram)[k].id) = 1
  /\ \E k \in 1..Len(Nodes(diagram)) :
       /\ Nodes(diagram)[k].type = "component"
       /\ CountFor("orphan", Nodes(diagram)[k].id) = 0

-----------------------------------------------------------------------------
\* the nodes the duplicate rule looks at, as the ids of those grouped under name v
Members(NameOf(_), v) ==
  LET ns == Nodes(diagram)
      idx == {k \in 1..Len(ns) : ns[k].type \notin {"bundleNode", "ghostNode"} /\ NameOf(ns[k]) = v}
      RECURSIVE ids(_)
      ids(k) == IF k > Len(ns) THEN <<>>
                ELSE (IF k \in idx THEN <<ns[k].id>> ELSE <<>>) \o ids(k + 1)
  IN  ids(1)

\* one finding listing all members for a name shared by two or more nodes,
\* none for a name held by fewer
OneFindingPerSharedName(NameOf(_)) ==
  \A k \in 1..Len(Nodes(diagram)) :
    LET v == NameOf(Nodes(diagram)[k])
        members == Members(NameOf, v)
        found == {i \in 1..Len(results) :
                    RuleOf(results[i]) = "duplicate" /\ results[i].message.args[1] = v}
    IN  IF Len(members) >= 2
        THEN /\ Cardinality(found) = 1
             /\ \A i \in found : results[i].type = "error" /\ results[i].id = Str(join(members))
        ELSE found = {}

\* the name the Name Resolver returns for a node
ResolvedName(node) == getNodeName(diagram, node.id)

\* the value of the node's reference_name property
DeclaredName(node) == PropValue(node, "reference_name")

\* C7 (as claimed): one duplicate finding, listing all member ids, for every set of
\* two or more ordinary nodes sharing one resolved reference name (the
\* reference_name value, or the raw id when there is none); none for a single holder
C7_ResolvedNames == Done => OneFindingPerSharedName(ResolvedName)

\* C7 (amended): one duplicate finding, listing all member ids, for every set of
\* two or more ordinary nodes sharing one non-empty reference_name property value;
\* none for a value held by one node, and none for nodes without a reference name,
\* which are never grouped under their raw id
C7_DeclaredNames ==
  Done =>
    /\ \A k \in 1..Len(Nodes(diagram)) :
         Truthy(DeclaredName(Nodes(diagram)[k])) =>
           LET v == DeclaredName(Nodes(diagram)[k])
               members == Members(DeclaredName, v)
               found == {i \in 1..Len(results) :
                           RuleOf(results[i]) = "duplicate" /\ results[i].message.args[1] = v}
           IN  IF Len(members) >= 2
               THEN /\ Cardinality(found) = 1
                    /\ \A i \in found :
                         results[i].type = "error" /\ results[i].id = Str(join(members))
               ELSE found = {}
    /\ \A i \in 1..Len(results) :
         RuleOf(results[i]) = "duplicate" =>
           \E k \in 1..Len(Nodes(diagram)) :
             /\ Truthy(DeclaredName(Nodes(diagram)[k]))
             /\ DeclaredName(Nodes(diagram)[k]) = results[i].message.args[1]

C7_Witness ==
  /\ Done
  /\ \E i \in 1..Len(results), k \in 1..Len(Nodes(diagram)) :
       /\ RuleOf(results[i]) = "duplicate"
       /\ Nodes(diagram)[k].type = "component"
       /\ ~Truthy(DeclaredName(Nodes(diagram)[k]))
       /\ Nodes(diagram)[k].id = results[i].message.args[1]
       /\ Len(Members(DeclaredName, results[i].message.args[1])) >= 2
       /\ results[i].id = Str(join(Members(DeclaredName, results[i].message.args[1])))

-----------------------------------------------------------------------------
\* the edges the multiple-wires rule counts: not bundled, no ghost-node end
CountedEdge(edge) ==
  /\ edge.type # "bundledEdge"
  /\ ~IsGhostId(edge.source)
  /\ ~IsGhostId(edge.target)

\* the counted edges that carry pin p as sourceHandle or targetHandle
EdgesOnPin(p) ==
  {k \in 1..Len(Edges(diagram)) :
     /\ CountedEdge(Edges(diagram)[k])
     /\ p \in {Edges(diagram)[k].sourceHandle, Edges(diagram)[k].targetHandle}}

PinFindings(p) ==
  {i \in 1..Len(results) :
     RuleOf(results[i]) = "multipleWires" /\ results[i].message.args[1] = p}

\* C8: a pin id that is a handle of two or more distinct counted edges gets exactly
\* one error finding listing every such edge; bundled edges and edges with a
\* ghost-node end are listed by no finding and give a pin no count
C8_MultipleWires ==
  Done =>
    /\ \A p \in {PinId(1), PinId(2)} :
         /\ Cardinality(EdgesOnPin(p)) >= 2 =>
              /\ Cardinality(PinFindings(p)) = 1
              /\ \A i \in PinFindings(p) :
                   /\ results[i].type = "error"
                   /\ \A k \in EdgesOnPin(p) :
                        includes(results[i].id.s, Edges(diagram)[k].id.s)
         /\ EdgesOnPin(p) = {} => PinFindings(p) = {}
    /\ \A i \in 1..Len(results), k \in 1..Len(Edges(diagram)) :
         (RuleOf(results[i]) = "multipleWires" /\ ~CountedEdge(Edges(diagram)[k]))
           => ~includes(results[i].id.s, Edges(diagram)[k].id.s)

C8_Witness ==
  /\ Done
  /\ Cardinality(EdgesOnPin(PinId(1))) >= 2
  /\ Cardinality(PinFindings(PinId(1))) = 1
  /\ \A i \in PinFindings(PinId(1)) : results[i].id = Str(join(<<EdgeId(1), EdgeId(2)>>))

-----------------------------------------------------------------------------
\* the role of the pin at an edge end, per the pin-function index
RoleAt(handle) == MapGet(BuildPinMap(diagram).map, handle)

RolesKnown(edge) == Truthy(RoleAt(edge.sourceHandle)) /\ Truthy(RoleAt(edge.targetHandle))

SerialRoles == {TXp, TXm, RXp, RXm}

\* PWR with GND, or PWR with a serial role, in either direction
PwrPair(a, b) ==
  \/ a = PWR /\ b \in {GND} \cup SerialRoles
  \/ b = PWR /\ a \in {GND} \cup SerialRoles

\* C9 (as claimed): a non-bundled edge with both roles known gets a power finding
\* if and only if its roles are PWR with GND or PWR with TX+, TX-, RX+ or RX-
C9_PowerOnlyWithPwr ==
  Done =>
    \A k \in 1..Len(Edges(diagram)) :
      LET edge == Edges(diagram)[k]
      IN  (edge.type # "bundledEdge" /\ RolesKnown(edge)) =>
            (CountFor("powerConnection", edge.id) > 0
               <=> PwrPair(RoleAt(edge.sourceHandle).s, RoleAt(edge.targetHandle).s))

\* C10: an edge gets a serial finding only when both roles are serial; such an
\* edge gets exactly one error unless its (source, target) roles are TX+/RX+,
\* RX+/TX+, TX-/RX- or RX-/TX-, and then none
C10_SerialConnections ==
  Done =>
    /\ \A k \in 1..Len(Edges(diagram)) :
         LET edge == Edges(diagram)[k]
             n == CountFor("serialConnection", edge.id)
             bothSerial == /\ RolesKnown(edge)
                           /\ RoleAt(edge.sourceHandle).s \in SerialRoles
                           /\ RoleAt(edge.targetHandle).s \in SerialRoles
             pair == <<RoleAt(edge.sourceHandle).s, RoleAt(edge.targetHandle).s>>
         IN  IF bothSerial
             THEN n = (IF pair \in {<<TXp, RXp>>, <<RXp, TXp>>, <<TXm, RXm>>, <<RXm, TXm>>}
                       THEN 0 ELSE 1)
             ELSE n = 0
    /\ \A i \in 1..Len(results) :
         RuleOf(results[i]) = "serialConnection" =>
           /\ results[i].type = "error"
           /\ \E k \in 1..Len(Edges(diagram)) : Edges(diagram)[k].id = results[i].id

C10_Witness ==
  /\ Done
  /\ \E k, l \in 1..Len(Edges(diagram)) :
       /\ RoleAt(Edges(diagram)[k].sourceHandle) = Str(TXp)
       /\ RoleAt(Edges(diagram)[k].targetHandle) = Str(RXm)
       /\ CountFor("serialConnection", Edges(diagram)[k].id) = 1
       /\ RoleAt(Edges(diagram)[l].sourceHandle) = Str(RXm)
       /\ RoleAt(Edges(diagram)[l].targetHandle) = Str(TXp)
       /\ CountFor("serialConnection", Edges(diagram)[l].id) = 1

-----------------------------------------------------------------------------
(* Ends outside the pin-function index *)

\* some pin of the diagram has this id and declares a function
Declares(p) ==
  \E i \in 1..Len(AllPins(diagram)) :
    AllPins(diagram)[i].id = p /\ Truthy(AllPins(diagram)[i].function)

Unindexed(handle) == handle = Undef \/ ~Declares(handle)

\* C11: an edge with an absent handle, or with a handle naming a pin that no
\* node declares or that is declared without a function, gets no finding from
\* the power rule and none from the serial rule.
C11_UnindexedEndsSkipped ==
  Done =>
    \A i \in 1..Len(Edges(diagram)) :
      LET edge == Edges(diagram)[i]
      IN  Unindexed(edge.sourceHandle) \/ Unindexed(edge.targetHandle) =>
            /\ CountFor("powerConnection", edge.id) = 0
            /\ CountFor("serialConnection", edge.id) = 0

\* a wire from a PWR pin to a pin no node declares, and a wire from the same
\* PWR pin with no target handle, in one run that flags neither
C11_Witness ==
  /\ Done
  /\ \E i, j \in 1..Len(Edges(diagram)) :
       LET e == Edges(diagram)[i]
           f == Edges(diagram)[j]
       IN  /\ e.type = "wire" /\ f.type = "wire"
           /\ RoleAt(e.sourceHandle) = Str(PWR)
           /\ e.targetHandle = PinId(2) /\ ~Declares(PinId(2))
           /\ f.sourceHandle = PinId(1) /\ f.targetHandle = Undef
           /\ CountFor("powerConnection", e.id) = 0
           /\ CountFor("serialConnection", f.id) = 0

-----------------------------------------------------------------------------
(* Pins sharing an id *)

\* the upper-cased function of the last pin, in nodes -> ports -> pins order,
\* that has this id and declares a function
LastRole(p) ==
  LET ps == AllPins(diagram)
      idx == {i \in 1..Len(ps) : ps[i].id = p /\ Truthy(ps[i].function)}
      last == CHOOSE i \in idx : \A j \in idx : j <= i
  IN  IF p = Undef \/ idx = {} THEN Undef ELSE Str(toUpperCase(ps[last].function.s))

PowerJudged(edge) ==
  LET s == LastRole(edge.sourceHandle)
      t == LastRole(edge.targetHandle)
  IN  /\ edge.type # "bundledEdge"
      /\ Truthy(s) /\ Truthy(t)
      /\ \E k \in 1..Len(illegalCombos) : illegalCombos[k] = <<s.s, t.s>>

SerialJudged(edge) ==
  LET s == LastRole(edge.sourceHandle)
      t == LastRole(edge.targetHandle)
  IN  /\ Truthy(s) /\ Truthy(t)
      /\ s.s \in serialPins /\ t.s \in serialPins
      /\ <<s.s, t.s>> \notin validCombos

\* C18: the index holds, for every pin id, the upper-cased function of the
\* last pin in traversal order that declares one (a later pin without a
\* function leaves the entry alone), and the power rule and the serial rule
\* flag an edge exactly when that role pair is a violation.
C18_LastPinWins ==
  Done =>
    /\ \A p \in {PinId(1), PinId(2)} : RoleAt(p) = LastRole(p)
    /\ \A i \in 1..Len(Edges(diagram)) :
         LET edge == Edges(diagram)[i]
         IN  /\ CountFor("powerConnection", edge.id) = IF PowerJudged(edge) THEN 1 ELSE 0
             /\ CountFor("serialConnection", edge.id) = IF SerialJudged(edge) THEN 1 ELSE 0

\* P1 is declared PWR and then tx+; a wire from P1 to P1 is flagged as the
\* serial pair TX+ -> TX+ and not judged as PWR -> PWR
C18_Witness ==
  /\ Done
  /\ Len(AllPins(diagram)) = 2
  /\ AllPins(diagram)[1] = Pin(PinId(1), Str(PWR))
  /\ AllPins(diagram)[2] = Pin(PinId(1), Str(<<"t","x","+">>))
  /\ \E i \in 1..Len(Edges(diagram)) :
       LET edge == Edges(diagram)[i]
       IN  /\ edge.sourceHandle = PinId(1) /\ edge.targetHandle = PinId(1)
           /\ CountFor("serialConnection", edge.id) = 1
           /\ \E k \in 1..Len(results) :
                /\ results[k].id = edge.id
                /\ results[k].message.args[2] = Str(TXp)

-----------------------------------------------------------------------------
(* One role finding per edge *)

\* C19: an edge gets at most one finding from the power rule and at most one
\* from the serial rule, and never one from each in the same run.
C19_OneRoleFinding ==
  Done =>
    \A i \in 1..Len(Edges(diagram)) :
      LET p == CountFor("powerConnection", Edges(diagram)[i].id)
          q == CountFor("serialConnection", Edges(diagram)[i].id)
      IN  p <= 1 /\ q <= 1 /\ p + q <= 1

\* GND wired to TX+ : one power finding on the edge, no serial finding
C19_Witness ==
  /\ Done
  /\ \E i \in 1..Len(Edges(diagram)) :
       LET edge == Edges(diagram)[i]
       IN  /\ RoleAt(edge.sourceHandle) = Str(GND)
           /\ RoleAt(edge.targetHandle) = Str(TXp)
           /\ CountFor("powerConnection", edge.id) = 1
           /\ CountFor("serialConnection", edge.id) = 0

-----------------------------------------------------------------------------
(* Test instructions *)

TestCategories == {"continuity", "mechanical", "power", "signal"}

\* C12: every non-bundled edge gets exactly one continuity instruction,
\* whatever its properties and ends, and a bundled edge gets no instruction
\* of any category.
C12_Continuity ==
  Done =>
    \A i \in 1..Len(Edges(diagram)) :
      LET edge == Edges(diagram)[i]
      IN  IF edge.type = "bundledEdge"
          THEN \A cat \in TestCategories : CountTests(cat, edge.id) = 0
          ELSE CountTests("continuity", edge.id) = 1

\* a wire without a source and without properties next to a bundled edge with
\* a length: one continuity instruction for the first, nothing for the second
C12_Witness ==
  /\ Done
  /\ \E i, j \in 1..Len(Edges(diagram)) :
       LET e == Edges(diagram)[i]
           b == Edges(diagram)[j]
       IN  /\ e.type = "wire" /\ e.source = Undef /\ DisplayProps(e) = <<>>
           /\ CountTests("continuity", e.id) = 1
           /\ b.type = "bundledEdge" /\ PropValue(b, "length") = Str(<<"1","2">>)
           /\ \A cat \in TestCategories : CountTests(cat, b.id) = 0

\* the edge's display properties contain a property with this key
HasKey(edge, key) == \E i \in 1..Len(DisplayProps(edge)) : DisplayProps(edge)[i].key = key

\* C13 (as claimed): a non-bundled edge gets a mechanical instruction exactly
\* when its display properties contain a length property.
C13_MechanicalIffPresent ==
  Done =>
    \A i \in 1..Len(Edges(diagram)) :
      LET edge == Edges(diagram)[i]
      IN  edge.type # "bundledEdge" =>
            (CountTests("mechanical", edge.id) >= 1 <=> HasKey(edge, "length"))

\* C13 (amended): a non-bundled edge gets exactly one mechanical instruction
\* when the value of its length property is a non-empty string, and none when
\* the property is absent or its value is the empty string.
C13_MechanicalIffNonEmpty ==
  Done =>
    \A i \in 1..Len(Edges(diagram)) :
      LET edge == Edges(diagram)[i]
          v == PropValue(edge, "length")
      IN  edge.type # "bundledEdge" =>
            CountTests("mechanical", edge.id) = IF v.t = "str" /\ v.s # <<>> THEN 1 ELSE 0

\* one wire whose length is "" and one whose length is " " : no mechanical
\* instruction for the first, one for the second
C13_Witness ==
  /\ Done
  /\ \E i, j \in 1..Len(Edges(diagram)) :
       LET e == Edges(diagram)[i]
           f == Edges(diagram)[j]
       IN  /\ e.type = "wire" /\ HasKey(e, "length") /\ PropValue(e, "length") = Str(<<>>)
           /\ CountTests("mechanical", e.id) = 0
           /\ f.type = "wire" /\ PropValue(f, "length") = Str(<<" ">>)
           /\ CountTests("mechanical", f.id) = 1

\* the text contains the upper-case needle when letter case is ignored
ContainsIgnoringCase(s, needle) ==
  \E k \in 0..(Len(s) - Len(needle)) :
    \A j \in 1..Len(needle) : UpperChar(s[k + j]) = needle[j]

\* some display property value of the edge contains the needle, case ignored
ValueContains(edge, needle) ==
  \E i \in 1..Len(DisplayProps(edge)) :
    LET v == DisplayProps(edge)[i].value
    IN  v.t = "str" /\ ContainsIgnoringCase(v.s, needle)

SignalTests(edge) ==
  SelectSeq(tests, LAMBDA t : t.category = "signal" /\ t.id = edge.id)

\* C14: a non-bundled edge gets exactly one signal instruction when some
\* display property value contains TX or RX in any letter case, and none
\* otherwise; the instruction names the TX line when some value contains TX,
\* also when another value contains RX, and the RX line only when no value
\* contains TX.
C14_Signal ==
  Done =>
    \A i \in 1..Len(Edges(diagram)) :
      LET edge == Edges(diagram)[i]
          someTX == ValueContains(edge, TX)
          someRX == ValueContains(edge, RX)
      IN  edge.type # "bundledEdge" =>
            IF someTX \/ someRX
            THEN /\ Len(SignalTests(edge)) = 1
                 /\ SignalTests(edge)[1].instruction[2] = Str(IF someTX THEN TX ELSE RX)
            ELSE SignalTests(edge) = <<>>

\* a wire whose insulation is "rx" and whose signal is "TX1" gets the TX line,
\* and a wire whose only match is "aRx" gets the RX line
C14_Witness ==
  /\ Done
  /\ \E i, j \in 1..Len(Edges(diagram)) :
       LET e == Edges(diagram)[i]
           f == Edges(diagram)[j]
       IN  /\ e.type = "wire" /\ PropValue(e, "insulation") = Str(<<"r","x">>)
           /\ PropValue(e, "signal") = Str(<<"T","X","1">>)
           /\ Len(SignalTests(e)) = 1 /\ SignalTests(e)[1].instruction[2] = Str(TX)
           /\ f.type = "wire" /\ PropValue(f, "signal") = Str(<<"a","R","x">>)
           /\ Len(SignalTests(f)) = 1 /\ SignalTests(f)[1].instruction[2] = Str(RX)

\* a non-empty text made of spaces only
Blank(v) == v.t = "str" /\ v.s # <<>> /\ \A i \in 1..Len(v.s) : IsSpace(v.s[i])

\* C20: a non-bundled edge whose length is a string or absent gets the
\* missing-length warning or a mechanical instruction; it gets both exactly
\* when the length is non-empty but blank, and an edge whose length is not
\* blank never gets the warning.
C20_WarningOrMechanical ==
  Done =>
    \A i \in 1..Len(Edges(diagram)) :
      LET edge == Edges(diagram)[i]
          v == PropValue(edge, "length")
          w == CountFor("missingLength", edge.id)
          m == CountTests("mechanical", edge.id)
      IN  edge.type # "bundledEdge" /\ v.t \in {"str", "undef"} =>
            /\ w + m >= 1
            /\ (w >= 1 /\ m >= 1) <=> Blank(v)
            /\ (v.t = "str" /\ v.s # <<>> /\ ~Blank(v)) => w = 0

\* a wire of length " " with the warning and the mechanical instruction, and
\* a wire of length "12" with the mechanical instruction only
C20_Witness ==
  /\ Done
  /\ \E i, j \in 1..Len(Edges(diagram)) :
       LET e == Edges(diagram)[i]
           f == Edges(diagram)[j]
       IN  /\ e.type = "wire" /\ PropValue(e, "length") = Str(<<" ">>)
           /\ CountFor("missingLength", e.id) = 1 /\ CountTests("mechanical", e.id) = 1
           /\ f.type = "wire" /\ PropValue(f, "length") = Str(<<"1","2">>)
           /\ CountFor("missingLength", f.id) = 0 /\ CountTests("mechanical", f.id) = 1

-----------------------------------------------------------------------------
(* The cable named by a floating bundled wire's finding *)

\* the cable names of the findings the bundled rule gave this edge
CableNamed(edge) ==
  {results[k].message.args[1] :
     k \in {j \in 1..Len(results) :
              RuleOf(results[j]) = "floatingBundledWire" /\ results[j].id = edge.id}}

ParentOf(edge) == FindById(Edges(diagram), ParentId(edge))

\* C17 (as claimed): the finding of a floating bundled edge whose parent_id
\* names an edge of the diagram names the cable by the parent's reference
\* name when it has one and by the parent's id otherwise.
C17_ParentResolved ==
  Done =>
    \A i \in 1..Len(Edges(diagram)) :
      LET edge == Edges(diagram)[i]
          parent == ParentOf(edge)
      IN  edge.type = "bundledEdge" /\ IsFloating(diagram, edge) /\ parent # Undef =>
            CableNamed(edge) = {OrElse(PropValue(parent, "reference_name"), parent.id)}

\* C17 (amended): the finding of a floating bundled edge names the cable by
\* the parent's reference name when parent_id names an edge that has a
\* non-empty one, and as "Unknown cable" otherwise: when the parent has no
\* reference name, when parent_id is absent, when no edge has that id.
C17_UnknownCable ==
  Done =>
    \A i \in 1..Len(Edges(diagram)) :
      LET edge == Edges(diagram)[i]
          parent == ParentOf(edge)
          named == parent # Undef /\ Truthy(PropValue(parent, "reference_name"))
      IN  edge.type = "bundledEdge" /\ IsFloating(diagram, edge) =>
            CableNamed(edge) = {IF named THEN PropValue(parent, "reference_name")
                                ELSE UnknownCable}

\* a floating bundled edge whose parent E1 has no reference name, and one
\* whose parent_id names no edge: both findings say "Unknown cable"
C17_Witness ==
  /\ Done
  /\ \E i, j \in 1..Len(Edges(diagram)) :
       LET e == Edges(diagram)[i]
           f == Edges(diagram)[j]
       IN  /\ e.type = "bundledEdge" /\ ParentId(e) = EdgeId(1)
           /\ PropValue(ParentOf(e), "reference_name") = Undef
           /\ CableNamed(e) = {UnknownCable}
           /\ f.type = "bundledEdge" /\ ParentId(f) = EdgeId(9) /\ ParentOf(f) = Undef
           /\ CableNamed(f) = {UnknownCable}

-----------------------------------------------------------------------------
(* The page's filter *)

\* the check whose rule writes this template
CheckOf(rule) ==
  CASE rule = "floatingWire" -> "floatingWires"
    [] rule = "floatingBundledWire" -> "floatingBundledWires"
    [] rule = "orphan" -> "orphanComponents"
    [] rule = "duplicate" -> "duplicates"
    [] rule = "multipleWires" -> "multipleWires"
    [] rule = "powerConnection" -> "powerConnections"
    [] rule = "serialConnection" -> "serialConnections"
    [] rule = "missingPartName" -> "missingPartNames"
    [] rule = "missingLength" -> "missingLengths"

\* C15 (as claimed): when exactly one check is unticked, the page shows the
\* findings of the other eight rules, all of them and in order, and none of
\* the findings of the unticked check's rule, whatever names the diagram uses.
C15_FilterByRule ==
  Done =>
    \A off \in CHECK_OPTIONS :
      enabledChecks = CHECK_OPTIONS \ {off} =>
        output = SelectSeq(results, LAMBDA r : CheckOf(RuleOf(r)) # off)

====
